---- MODULE Spec2Model ----
(***************************************************************************)
(* GitHubRepoAnalyzer (lib/github-analyzer.ts): analyzeUserProfile and the *)
(* calls it makes, as an event-loop state machine.  Every action is the    *)
(* code that runs between two suspension points (await) or one iteration   *)
(* of a loop; the upstream (GitHub REST API, raw download host, tokenizer) *)
(* is the environment and chooses every response.                          *)
(*                                                                         *)
(* Encodings.  A path is a sequence of '/'-separated segments and a        *)
(* segment is a sequence of '.'-separated parts, so "src/a.ts" is          *)
(* <<<<"src">>, <<"a", "ts">>>> and ".git" is <<<<"", "git">>>>.  A text is *)
(* known by its length in characters and by whether the tokenizer throws   *)
(* on it.  An error message is its fixed wording plus its interpolated     *)
(* argument.  An array of listing entries is held run-length encoded, as   *)
(* the sequence of its maximal runs [item, n] of n equal elements.         *)
(***************************************************************************)
EXTENDS Integers, Sequences, FiniteSets, TLC

VARIABLES
    pc,          \* where analyzeUserProfile is suspended
    username,    \* argument of analyzeUserProfile
    minTokens,   \* argument of analyzeUserProfile
    tokenizer,   \* this.tokenizer: "ok" or "null" (constructor's catch)
    net,         \* the request awaiting its response
    page,        \* getUserRepos: page
    repos,       \* getUserRepos: repos, then analyzeUserProfile: repos
    ri,          \* analyzeUserProfile: position of the for loop over repos
    results,     \* analyzeUserProfile: results, the report once pc = "done"
    stack,       \* getRepoContents: the activations of the recursive walk
    fileCount,   \* getRepoContents: fileCount.count, shared by the walk
    files,       \* analyzeRepository: files
    fi,          \* analyzeRepository: position of the for loop over files
    totalTokens, \* analyzeRepository: totalTokens
    fileStats,   \* analyzeRepository: fileStats
    timers,      \* downloadFileContent: pending setTimeout callbacks
    aborted,     \* downloadFileContent: controller.abort() calls made
    hung,        \* the upstream will never answer the outstanding download
    left,        \* what the upstream may still hand out (bounds the model)
    received,    \* history: every listing entry received, in order
    listStatus,  \* history: status of the last listing response, 0 if none,
                 \*          -1 if its fetch was rejected
    outcomes,    \* history: per analysed listing entry, "ok" or "threw"
    reqs,        \* history: the kinds of requests issued so far, and
                 \* "skipped" once a call returned at the exclusion test
    served,      \* history: the position in repos of the last entry a
                 \* contents request and a download were issued for
    lastRead,    \* history: what the step just taken read from the upstream
    reply,       \* POST: the response sent, NoReply before
    rerun        \* a second run against the same upstream: whether the
                 \* responses are recorded or replayed, the responses, the
                 \* first report and what the upstream could hand out

vars == <<pc, username, minTokens, tokenizer, net, page, repos, ri, results,
          stack, fileCount, files, fi, totalTokens, fileStats, timers,
          aborted, hung, left, received, listStatus, outcomes, reqs, served,
          lastRead, reply, rerun>>

(***************************************************************************)
(* Program constants                                                       *)
(***************************************************************************)
perPage == 100
MAX_DEPTH == 5
MAX_FILES == 1000
MAX_PROCESSED == 200
MAX_SIZE == 10 * 1024 * 1024
MAX_TEXT == 500000
DEFAULT_MIN_TOKENS == 1000000

skipDirs ==
    { <<"node_modules">>, <<"", "git">>, <<"dist">>, <<"build">>,
      <<"", "next">>, <<"vendor">>, <<"target">>, <<"__pycache__">> }

codeExtensions ==
    { "py", "js", "jsx", "ts", "tsx", "java", "cpp", "c", "h", "hpp",
      "cs", "php", "rb", "go", "rs", "swift", "kt", "scala", "sh",
      "sql", "html", "css", "scss", "less", "xml", "json", "yaml", "yml",
      "md", "txt", "r", "m", "pl", "lua", "dart", "elm", "ex", "exs" }

(***************************************************************************)
(* Bounds of the model                                                     *)
(***************************************************************************)
MaxInputs == 5      \* everything the five bounds below count, per run
MaxRepos == 2       \* listing entries other than padding, per run
MaxFullPages == 1   \* listing pages of exactly perPage entries, per run
MaxItems == 2       \* ordinary files and directories listed, per run
MaxListLen == 2     \* entries of one directory listing, large ones apart
Threshold == 1      \* minTokens of the small profiles
MaxOdd == 1         \* unusual entries, texts and failures, per run

(***************************************************************************)
(* Helpers                                                                 *)
(***************************************************************************)
Last(s) == s[Len(s)]

Min(a, b) == IF a < b THEN a ELSE b

SeqsUpTo(S, n) == UNION { [1..k -> S] : k \in 0..n }

RECURSIVE SumSeq(_)
SumSeq(s) == IF s = <<>> THEN 0 ELSE Head(s) + SumSeq(Tail(s))

(***************************************************************************)
(* Arrays, run-length encoded                                              *)
(***************************************************************************)
\* array.length
RECURSIVE RLen(_)
RLen(a) == IF a = <<>> THEN 0 ELSE Head(a).n + RLen(Tail(a))

\* array[i - 1]
RECURSIVE RAt(_, _)
RAt(a, i) == IF i <= Head(a).n THEN Head(a).item ELSE RAt(Tail(a), i - Head(a).n)

\* array.push(x)
RPush(a, x) ==
    IF a # <<>> /\ Last(a).item = x
    THEN [a EXCEPT ![Len(a)].n = @ + 1]
    ELSE Append(a, [item |-> x, n |-> 1])

\* a.push(...b)
RConcat(a, b) ==
    IF a = <<>> THEN b
    ELSE IF b = <<>> THEN a
    ELSE IF Last(a).item = Head(b).item
         THEN [a EXCEPT ![Len(a)].n = @ + Head(b).n] \o Tail(b)
    ELSE a \o b

\* the array without its first element
RRest(a) == IF Head(a).n = 1 THEN Tail(a) ELSE [a EXCEPT ![1].n = @ - 1]

\* the array of n elements x
RRepeat(x, n) == IF n = 0 THEN <<>> ELSE <<[item |-> x, n |-> n]>>

\* the array of the elements of the sequence q
RECURSIVE ROf(_)
ROf(q) == IF q = <<>> THEN <<>> ELSE RConcat(RRepeat(Head(q), 1), ROf(Tail(q)))

\* the elements of the array
RItems(a) == { a[i].item : i \in DOMAIN a }

NoError == [msg |-> "", arg |-> ""]

NoRequest == [kind |-> "none", page |-> 0, repo |-> "", path |-> <<>>]

\* No response was read.
NoResponse == [status |-> "none", threw |-> FALSE, len |-> 0]

\* A response as the code tells them apart: the fetch rejected, response.ok
\* or not; threw tells whether the tokenizer was missing or threw on the
\* text, len is the length of the text downloadFileContent returned.
Read(r, threw, len) ==
    [status |-> IF r.kind = "reject" THEN "rejected"
                ELSE IF r.status >= 200 /\ r.status <= 299 THEN "ok"
                ELSE "failed",
     threw |-> threw, len |-> len]

\* response.ok
ok(status) == status >= 200 /\ status <= 299

FailureStatuses == {403, 404, 500}

(***************************************************************************)
(* The upstream: what a response may carry                                 *)
(***************************************************************************)
RepoNames == {"a", "b"}

\* A Repository of the listing; the metadata copied verbatim into the report
\* (description, language, stars, size, url) is carried by its name.
RepoEntries == [name : RepoNames, fork : BOOLEAN]

\* Padding of a full page: entries the fork filter drops.
PadEntry == [name |-> "a", fork |-> TRUE]

FullPage(prefix) == RConcat(ROf(prefix), RRepeat(PadEntry, perPage - Len(prefix)))

\* The bodies of a successful listing response under the budget l.
Pages(l) ==
    LET short == SeqsUpTo(RepoEntries, l.repos)
    IN  { [body |-> ROf(p), cost |-> Len(p), full |-> 0] : p \in short }
        \cup
        { [body |-> FullPage(p), cost |-> Len(p), full |-> 1] :
              p \in IF l.full > 0 THEN { q \in short : Len(q) < l.pool }
                    ELSE {} }

ListResponses(l) ==
    { [kind |-> "reject", status |-> 0, body |-> <<>>, cost |-> 0, full |-> 0] }
    \cup
    { [kind |-> "http", status |-> s, body |-> <<>>, cost |-> 0, full |-> 0] :
          s \in FailureStatuses }
    \cup
    { [kind |-> "http", status |-> 200, body |-> p.body, cost |-> p.cost,
       full |-> p.full] : p \in Pages(l) }

\* Entries of a directory listing, before the upstream prefixes the directory.
KFile == [type |-> "file", name |-> <<"a", "ts">>, size |-> 1, url |-> TRUE,
          hasPath |-> TRUE]
KDir == [type |-> "dir", name |-> <<"src">>, size |-> 0, url |-> FALSE,
         hasPath |-> TRUE]
OddKinds ==
    { [KFile EXCEPT !.name = <<"build">>],       \* a file called build
      [KDir EXCEPT !.name = <<"build">>],        \* an excluded directory
      [KFile EXCEPT !.size = MAX_SIZE + 1],      \* a file above 10 MiB
      [KFile EXCEPT !.url = FALSE],              \* download_url: null
      [KFile EXCEPT !.hasPath = FALSE],          \* an entry without a path
      [KFile EXCEPT !.type = "symlink"],         \* neither file nor dir
      [KFile EXCEPT !.name = <<"md">>],          \* a file called md
      [KFile EXCEPT !.name = <<"a", "PNG">>] }   \* an image
Kinds == {KFile, KDir} \cup OddKinds

CountOf(s, S) == Cardinality({ i \in DOMAIN s : s[i] \in S })

Shapes(l) ==
    { s \in SeqsUpTo(Kinds, Min(MaxListLen, l.pool)) :
          /\ CountOf(s, {KFile, KDir}) <= l.items
          /\ CountOf(s, OddKinds) <= l.odd }

\* The contents endpoint names every entry by the directory's path and the
\* entry's own name.
Entry(dir, k) ==
    [type |-> k.type, path |-> IF k.hasPath THEN Append(dir, k.name) ELSE <<>>,
     size |-> k.size, url |-> k.url, hasPath |-> k.hasPath]

Listing(dir, shape) == ROf([i \in DOMAIN shape |-> Entry(dir, shape[i])])

BulkSizes == {MAX_FILES, MAX_FILES + 2}

Bulk(dir, n) == RRepeat(Entry(dir, KFile), n)

\* What is left of each kind is never more than what is left in all.
Avail(l) ==
    [repos |-> Min(l.repos, l.pool), full |-> Min(l.full, l.pool),
     items |-> Min(l.items, l.pool), odd |-> Min(l.odd, l.pool),
     bulk |-> Min(l.bulk, l.pool), pool |-> l.pool]

Spend(l, i, o, b) ==
    Avail([l EXCEPT !.items = @ - i, !.odd = @ - o, !.bulk = @ - b,
                    !.pool = @ - (i + o + b)])

\* The object slot of a response whose JSON is an array, or that has no JSON.
NoObject == [type |-> "none", path |-> <<>>, size |-> 0, url |-> FALSE,
             hasPath |-> FALSE]

ContentsResponses(l, dir) ==
    { [kind |-> "http", status |-> 200, isArray |-> TRUE,
       body |-> Listing(dir, s), object |-> NoObject,
       left |-> Spend(l, CountOf(s, {KFile, KDir}), CountOf(s, OddKinds), 0)] :
          s \in Shapes(l) }
    \cup
    { [kind |-> "http", status |-> 200, isArray |-> TRUE,
       body |-> Bulk(dir, n), object |-> NoObject,
       left |-> Spend(l, 0, 0, 1)] :
          n \in IF l.bulk > 0 THEN BulkSizes ELSE {} }
    \cup
    \* a single object instead of an array: the path names a file by now
    { [kind |-> "http", status |-> 200, isArray |-> FALSE, body |-> <<>>,
       object |-> [type |-> "file", path |-> dir, size |-> 1, url |-> TRUE,
                   hasPath |-> TRUE],
       left |-> Spend(l, 0, 1, 0)] :
          x \in IF l.odd > 0 /\ dir # <<>> THEN {1} ELSE {} }
    \cup
    { [kind |-> "http", status |-> s, isArray |-> FALSE, body |-> <<>>,
       object |-> NoObject,
       left |-> Spend(l, 0, 1, 0)] :
          s \in IF l.odd > 0 THEN FailureStatuses ELSE {} }
    \cup
    { [kind |-> "reject", status |-> 0, isArray |-> FALSE, body |-> <<>>,
       object |-> NoObject,
       left |-> Spend(l, 0, 1, 0)] :
          x \in IF l.odd > 0 THEN {1} ELSE {} }

\* A text: its length and whether tokenizer.encode throws on it.
TText == [len |-> 1, poison |-> FALSE]
EmptyText == [len |-> 0, poison |-> FALSE]
OddTexts ==
    { EmptyText, [len |-> 2, poison |-> FALSE],
      [len |-> MAX_TEXT + 1, poison |-> FALSE], [len |-> 1, poison |-> TRUE] }

DownloadResponses(l) ==
    { [kind |-> "http", status |-> 200, text |-> TText, left |-> l] }
    \cup
    { [kind |-> "http", status |-> 200, text |-> t,
       left |-> Spend(l, 0, 1, 0)] :
          t \in IF l.odd > 0 THEN OddTexts ELSE {} }
    \cup
    \* a failure status comes with a body, such as "404: Not Found"
    { [kind |-> "http", status |-> s, text |-> TText,
       left |-> Spend(l, 0, 1, 0)] :
          s \in IF l.odd > 0 THEN FailureStatuses ELSE {} }
    \cup
    { [kind |-> "reject", status |-> 0, text |-> EmptyText,
       left |-> Spend(l, 0, 1, 0)] :
          x \in IF l.odd > 0 THEN {1} ELSE {} }

(***************************************************************************)
(* Pure parts of the code                                                  *)
(***************************************************************************)
\* Faulty variant: the filter keeps every entry.
NonForkM(pageRepos) == pageRepos

\* getUserRepos: pageRepos.filter(repo => !repo.fork)
RECURSIVE NonFork(_)
NonFork(pageRepos) ==
    IF pageRepos = <<>> THEN <<>>
    ELSE IF ~Head(pageRepos).item.fork
         THEN RConcat(<<Head(pageRepos)>>, NonFork(Tail(pageRepos)))
    ELSE NonFork(Tail(pageRepos))

\* Faulty variant: every failing status gets the generic message.
ListErrorM(status, user) ==
    IF ~ok(status)
    THEN [msg |-> "Error fetching repos: %s", arg |-> ToString(status)]
    ELSE [msg |-> "", arg |-> ""]

\* Faulty variant: a page of perPage entries ends the loop.
ShortPageM(pageRepos) == RLen(pageRepos) <= perPage

\* getUserRepos: if (pageRepos.length < perPage) break
ShortPage(pageRepos) == RLen(pageRepos) < perPage

\* getUserRepos: the Error thrown for a listing status, NoError when none is
ListError(status, user) ==
    IF status = 404 THEN [msg |-> "User '%s' not found", arg |-> user]
    ELSE IF status = 403
         THEN [msg |-> "Rate limit exceeded. Please provide a GitHub token or wait.",
               arg |-> ""]
    ELSE IF ~ok(status)
         THEN [msg |-> "Error fetching repos: %s", arg |-> ToString(status)]
    ELSE NoError

\* The Error a rejected fetch carries.
FetchFailed == [msg |-> "fetch failed", arg |-> ""]

\* analyzeUserProfile: the report of the outer catch
ErrorReport(user, minT, err) ==
    [username |-> user, total_repos_analyzed |-> 0,
     repos_meeting_criteria |-> <<>>, all_repo_stats |-> <<>>,
     min_tokens_threshold |-> minT, error |-> err]

\* Faulty variant: the empty listing is reported as a success.
NoReposReportM(user, minT) ==
    [username |-> user, total_repos_analyzed |-> 0,
     repos_meeting_criteria |-> <<>>, all_repo_stats |-> <<>>,
     min_tokens_threshold |-> minT, error |-> [msg |-> "", arg |-> ""]]

\* analyzeUserProfile: the report returned when the listing is empty
NoReposReport(user, minT) ==
    [username |-> user, total_repos_analyzed |-> 0,
     repos_meeting_criteria |-> <<>>, all_repo_stats |-> <<>>,
     min_tokens_threshold |-> minT,
     error |-> [msg |-> "No repositories found or user does not exist",
                arg |-> ""]]

\* analyzeUserProfile: const results = { ... }
NewResults(user, minT) ==
    [username |-> user, total_repos_analyzed |-> 0,
     repos_meeting_criteria |-> <<>>, all_repo_stats |-> <<>>,
     min_tokens_threshold |-> minT, error |-> NoError]

\* all_repo_stats is a mapping from repository names; <<>> is the empty one.
Put(map, key, val) ==
    [k \in DOMAIN map \cup {key} |-> IF k = key THEN val ELSE map[k]]

\* analyzeUserProfile: the body of the inner try after analyzeRepository
Record(res, repo, tokens, stats, minT) ==
    LET repoAnalysis ==
            [name |-> repo.name, total_tokens |-> tokens, file_stats |-> stats,
             meets_criteria |-> tokens >= minT]
    IN  [res EXCEPT
            !.all_repo_stats = Put(@, repo.name, repoAnalysis),
            !.total_repos_analyzed = @ + 1,
            !.repos_meeting_criteria =
                IF tokens >= minT THEN Append(@, repoAnalysis) ELSE @]

\* Faulty variant: the inner catch counts the repository as analysed.
OnRepoErrorM(res) == [res EXCEPT !.total_repos_analyzed = @ + 1]

\* analyzeUserProfile: the inner catch logs and continues
OnRepoError(res) == res

\* Faulty variant: the depth test is off by one.
LimitReachedM(depth, count) == depth > MAX_DEPTH + 1 \/ count > MAX_FILES

\* getRepoContents: depth > MAX_DEPTH || fileCount.count > MAX_FILES
LimitReached(depth, count) == depth > MAX_DEPTH \/ count > MAX_FILES

\* getRepoContents: path.split('/').pop() || ''
pathName(path) == IF path = <<>> THEN <<"">> ELSE Last(path)

\* Faulty variant: no directory is excluded.
IsSkippedM(path) == FALSE

\* getRepoContents: skipDirs.includes(pathName)
IsSkipped(path) == pathName(path) \in skipDirs

\* Faulty variant: the loop's test is off by one.
LoopLimitM(count) == count > MAX_FILES + 1

\* getRepoContents: the loop's if (fileCount.count > MAX_FILES) break
LoopLimit(count) == count > MAX_FILES

\* getRepoContents: Array.isArray(contents) ? contents : [contents]
contentArray(resp) == IF resp.isArray THEN resp.body ELSE RRepeat(resp.object, 1)

\* Faulty variant: > instead of >=.
ProcessedCapReachedM(processed) == processed > MAX_PROCESSED

\* analyzeRepository: if (fileStats.processed_files >= 200) break
ProcessedCapReached(processed) == processed >= MAX_PROCESSED

\* String.prototype.toLowerCase on the parts that occur in the model
toLowerCase(part) ==
    CASE part = "TS" -> "ts"
      [] part = "MD" -> "md"
      [] part = "PNG" -> "png"
      [] OTHER -> part

\* The text after the final '.' of the path, as the '/'-separated pieces it
\* spans: filePath.split('.').pop()
AfterFinalDot(path) ==
    LET dotted == { i \in DOMAIN path : Len(path[i]) >= 2 }
    IN  IF dotted = {}
        THEN [i \in DOMAIN path |-> path[i][1]]
        ELSE LET k == CHOOSE i \in dotted : \A j \in dotted : j <= i
             IN  [i \in 1..(Len(path) - k + 1) |->
                     IF i = 1 THEN Last(path[k]) ELSE path[k + i - 1][1]]

\* analyzeRepository: fileExt without its leading '.'
fileExt(path) ==
    LET t == AfterFinalDot(path) IN [i \in DOMAIN t |-> toLowerCase(t[i])]

\* Faulty variant: any extension passes.
IsCodeFileM(path) == Len(fileExt(path)) = 1

\* analyzeRepository: codeExtensions.has(fileExt)
IsCodeFile(path) ==
    LET e == fileExt(path) IN Len(e) = 1 /\ e[1] \in codeExtensions

\* downloadFileContent: text.length > 500000 ? text.substring(0, 500000) : text
Truncate(text) == IF text.len > MAX_TEXT THEN [text EXCEPT !.len = MAX_TEXT] ELSE text

\* tokenizer.encode(text).length: the tokenizer is deterministic; one token
\* per character stands for it.
Encode(text) == text.len

\* countTokensInText
\* Faulty variant: the tokenizer is freed when a run ends, and encode throws
\* from then on.
countTokensInTextM(tok, text) ==
    IF tok = "null" \/ text.len = 0 \/ rerun.mode = "replay" THEN 0
    ELSE IF text.poison THEN 0
    ELSE text.len

countTokensInText(tok, text) ==
    IF tok = "null" \/ text.len = 0 THEN 0
    ELSE IF text.poison THEN 0
    ELSE Encode(text)

\* Faulty variant: the count of the extension is replaced.
AddExtensionM(extensions, ext, fileTokens) == Put(extensions, ext, fileTokens)

\* analyzeRepository: fileStats.extensions[fileExt] += fileTokens, or = fileTokens
AddExtension(extensions, ext, fileTokens) ==
    IF ext \in DOMAIN extensions /\ extensions[ext] # 0
    THEN [extensions EXCEPT ![ext] = @ + fileTokens]
    ELSE Put(extensions, ext, fileTokens)

(***************************************************************************)
(* app/api/analyze/route.ts: the responses of POST                         *)
(***************************************************************************)
NoReply == [status |-> 0, body |-> [none |-> TRUE]]

\* if (!username): { error: 'Username is required' }, status 400
MissingUsername ==
    [status |-> 400,
     body |-> [error |-> [msg |-> "Username is required", arg |-> ""]]]

\* The catch of POST, reached when request.json() rejects: the message of a
\* JSON syntax error holds none of the words the catch looks for.
Unexpected ==
    [status |-> 500,
     body |-> [error |-> [msg |-> "Error: %s", arg |-> "Unexpected token"]]]

\* if (results.error): { error: results.error }, status 400; otherwise the
\* report itself, status 200
ReplyFor(res) ==
    IF res.error # NoError
    THEN [status |-> 400, body |-> [error |-> res.error]]
    ELSE [status |-> 200, body |-> res]

(***************************************************************************)
(* State                                                                   *)
(***************************************************************************)
NoStats == [total_files |-> 0, processed_files |-> 0, extensions |-> <<>>]

NoTimers == [current |-> FALSE, stale |-> 0]

\* No contents request and no download issued yet.
NoneServed == [contents |-> 0, download |-> 0]

\* The responses the upstream gives to the outstanding request: any of
\* S, or in a second run the one it gave at this point of the first run.
Offered(S) ==
    IF rerun.mode # "replay" THEN S
    ELSE IF rerun.tape = <<>> THEN {}
    ELSE {Head(rerun.tape)}

\* The record of the responses, after response r.
Noted(r) ==
    IF rerun.mode = "record" THEN [rerun EXCEPT !.tape = Append(@, r)]
    ELSE IF rerun.mode = "replay" THEN [rerun EXCEPT !.tape = Tail(@)]
    ELSE rerun

InitRun(thresholds, budget, mode) ==
    /\ pc = "start"
    /\ username \in {"octocat", ""}
    /\ minTokens \in thresholds
    /\ tokenizer \in IF budget.odd > 0 THEN {"ok", "null"} ELSE {"ok"}
    /\ net = NoRequest
    /\ page = 1
    /\ repos = <<>>
    /\ ri = 0
    /\ results = NewResults(username, minTokens)
    /\ stack = <<>>
    /\ fileCount = 0
    /\ files = <<>>
    /\ fi = 0
    /\ totalTokens = 0
    /\ fileStats = NoStats
    /\ timers = NoTimers
    /\ aborted = FALSE
    /\ hung = FALSE
    /\ left = IF tokenizer = "null" THEN Spend(budget, 0, 1, 0)
              ELSE Avail(budget)
    /\ received = <<>>
    /\ listStatus = 0
    /\ outcomes = <<>>
    /\ reqs = {}
    /\ served = NoneServed
    /\ lastRead = NoResponse
    /\ reply = NoReply
    /\ rerun = [mode |-> mode, tape |-> <<>>, first |-> results,
                budget |-> left]

InitWith(thresholds, budget) == InitRun(thresholds, budget, "off")

\* A profile of a few small repositories.
Init ==
    InitWith({Threshold},
             [repos |-> MaxRepos, full |-> MaxFullPages, items |-> MaxItems,
              odd |-> MaxOdd, bulk |-> 0, pool |-> MaxInputs])

\* A profile of one repository whose tree is deep enough for a directory
\* below MAX_DEPTH to be listed, next to a file.
InitDeep ==
    InitWith({DEFAULT_MIN_TOKENS},
             [repos |-> 1, full |-> 0, items |-> MAX_DEPTH + 2, odd |-> MaxOdd,
              bulk |-> 0, pool |-> MAX_DEPTH + 3])

\* A profile of one repository with a directory of more than MAX_FILES
\* files, which are more than MAX_PROCESSED.
InitLarge ==
    InitWith({DEFAULT_MIN_TOKENS},
             [repos |-> 1, full |-> 0, items |-> MaxItems, odd |-> MaxOdd,
              bulk |-> 1, pool |-> MaxInputs - 1])

\* A profile of a few small repositories, analysed twice.
InitTwice ==
    InitRun({Threshold},
            [repos |-> MaxRepos, full |-> 0, items |-> MaxItems,
             odd |-> MaxOdd, bulk |-> 0, pool |-> MaxInputs - 1], "record")

(***************************************************************************)
(* getRepoContents: return and call                                        *)
(***************************************************************************)
\* Faulty variant: the return of any activation hands its files to
\* analyzeRepository, whatever callers are still waiting.
ReturnM(result, below) ==
    /\ net' = NoRequest
    /\ stack' = below
    /\ files' = result
    /\ fi' = 1
    /\ totalTokens' = 0
    /\ fileStats' = [total_files |-> RLen(result), processed_files |-> 0,
                     extensions |-> <<>>]
    /\ pc' = "fileLoop"

\* An activation returns result to the activations below it (below, the
\* caller on top).  The caller appends it and moves to its next item; with no
\* caller, analyzeRepository goes on with its files.
Return(result, below) ==
    /\ net' = NoRequest
    /\ IF below = <<>>
       THEN /\ stack' = <<>>
            /\ files' = result
            /\ fi' = 1
            /\ totalTokens' = 0
            /\ fileStats' = [total_files |-> RLen(result), processed_files |-> 0,
                             extensions |-> <<>>]
            /\ pc' = "fileLoop"
       ELSE /\ stack' = [below EXCEPT ![Len(below)] =
                            [@ EXCEPT !.files = RConcat(@, result),
                                      !.items = RRest(@)]]
            /\ pc' = "walkLoop"
            /\ UNCHANGED <<files, fi, totalTokens, fileStats>>

\* getRepoContents(owner, repoName, path, depth, fileCount) up to its fetch.
Call(repo, path, depth, count, callers) ==
    IF LimitReached(depth, count) \/ IsSkipped(path)
    THEN /\ Return(<<>>, callers)
         /\ reqs' = IF LimitReached(depth, count) THEN reqs
                    ELSE reqs \cup {"skipped"}
         /\ UNCHANGED served
    ELSE /\ stack' = Append(callers, [path |-> path, depth |-> depth,
                                      items |-> <<>>, files |-> <<>>])
         /\ net' = [kind |-> "contents", page |-> 0, repo |-> repo.name,
                     path |-> path]
         /\ reqs' = reqs \cup {"contents"}
         /\ served' = [served EXCEPT !.contents = ri]
         /\ pc' = "walkWait"
         /\ UNCHANGED <<files, fi, totalTokens, fileStats>>

(***************************************************************************)
(* analyzeUserProfile and getUserRepos                                     *)
(***************************************************************************)
\* POST up to its first response or request: the body that cannot be parsed
\* and the missing username are answered at once; otherwise the analyzer is
\* constructed, analyzeUserProfile is called and getUserRepos issues the
\* request of page 1.
Start ==
    /\ pc = "start"
    /\ \E parsed \in BOOLEAN :
          IF ~parsed \/ username = ""
          THEN /\ reply' = IF ~parsed THEN Unexpected ELSE MissingUsername
               /\ pc' = "rejected"
               /\ UNCHANGED <<page, repos, net, reqs, served>>
          ELSE /\ pc' = "listWait"
               /\ page' = 1
               /\ repos' = <<>>
               /\ net' = [kind |-> "list", page |-> 1, repo |-> "",
                           path |-> <<>>]
               /\ reqs' = reqs \cup {"list"}
               /\ UNCHANGED served
               /\ UNCHANGED reply
    /\ lastRead' = NoResponse
    /\ UNCHANGED <<rerun, username, minTokens, tokenizer, ri, results, stack,
                   fileCount, files, fi, totalTokens, fileStats, timers,
                   aborted, hung, left, received, listStatus, outcomes>>

\* getUserRepos has returned all: analyzeUserProfile up to its for loop.
Listed(all) ==
    /\ repos' = all
    /\ net' = NoRequest
    /\ UNCHANGED <<page, reqs, served>>
    /\ IF RLen(all) = 0
       THEN /\ results' = NoReposReport(username, minTokens)
            /\ pc' = "done"
            /\ UNCHANGED ri
       ELSE /\ results' = NewResults(username, minTokens)
            /\ pc' = "repoLoop"
            /\ ri' = 1

\* An exception leaves getUserRepos: the outer catch of analyzeUserProfile.
Failed(err) ==
    /\ results' = ErrorReport(username, minTokens, err)
    /\ pc' = "done"
    /\ net' = NoRequest
    /\ UNCHANGED <<page, repos, ri, reqs, served>>

\* The response to a listing request arrives: the rest of the while body.
ListResponse ==
    /\ pc = "listWait"
    /\ \E r \in Offered(ListResponses(left)) :
          /\ rerun' = Noted(r)
          /\ left' = Avail([left EXCEPT !.repos = @ - r.cost,
                                        !.full = @ - r.full,
                                        !.pool = @ - (r.cost + r.full)])
          /\ listStatus' = IF r.kind = "reject" THEN -1 ELSE r.status
          /\ lastRead' = Read(r, FALSE, 0)
          /\ received' = IF r.kind = "http" /\ ok(r.status)
                         THEN RConcat(received, r.body) ELSE received
          /\ IF r.kind = "reject" THEN Failed(FetchFailed)
             ELSE IF ListError(r.status, username) # NoError
                  THEN Failed(ListError(r.status, username))
             ELSE IF RLen(r.body) = 0 THEN Listed(repos)
             ELSE IF ShortPage(r.body)
                  THEN Listed(RConcat(repos, NonFork(r.body)))
             ELSE /\ repos' = RConcat(repos, NonFork(r.body))
                  /\ page' = page + 1
                  /\ net' = [kind |-> "list", page |-> page + 1, repo |-> "",
                              path |-> <<>>]
                  /\ reqs' = reqs \cup {"list"}
                  /\ UNCHANGED served
                  /\ UNCHANGED <<pc, ri, results>>
    /\ UNCHANGED <<reply, username, minTokens, tokenizer, stack, fileCount, files, fi,
                   totalTokens, fileStats, timers, aborted, hung, outcomes>>

\* The head of the for loop over repos: return results, or analyzeRepository
\* up to the first fetch of its walk (a fresh fileCount, depth 0, path '').
RepoLoop ==
    /\ pc = "repoLoop"
    /\ IF ri > RLen(repos)
       THEN /\ pc' = "done"
            /\ UNCHANGED <<stack, net, reqs, served, files, fi, totalTokens, fileStats,
                           fileCount>>
       ELSE /\ fileCount' = 0
            /\ Call(RAt(repos, ri), <<>>, 0, 0, <<>>)
    /\ lastRead' = NoResponse
    /\ UNCHANGED <<rerun, reply, username, minTokens, tokenizer, page, repos, ri, results,
                   timers, aborted, hung, left, received, listStatus, outcomes>>

(***************************************************************************)
(* getRepoContents                                                         *)
(***************************************************************************)
\* The response to a contents request arrives: !response.ok and a rejected
\* fetch both return [], otherwise the for loop starts on contentArray.
ContentsResponse ==
    /\ pc = "walkWait"
    /\ LET top == Last(stack)
           below == SubSeq(stack, 1, Len(stack) - 1)
       IN  \E r \in Offered(ContentsResponses(left, top.path)) :
              /\ rerun' = Noted(r)
              /\ left' = r.left
              /\ lastRead' = Read(r, FALSE, 0)
              /\ IF r.kind = "reject" \/ ~ok(r.status)
                 THEN /\ Return(<<>>, below)
                      /\ UNCHANGED <<reqs, served>>
                 ELSE /\ stack' = [stack EXCEPT ![Len(stack)].items =
                                        contentArray(r)]
                      /\ net' = NoRequest
                      /\ pc' = "walkLoop"
                      /\ UNCHANGED <<reqs, served, files, fi, totalTokens, fileStats>>
    /\ UNCHANGED <<reply, username, minTokens, tokenizer, page, repos, ri, results,
                   fileCount, timers, aborted, hung, received, listStatus,
                   outcomes>>

\* One iteration of for (const item of contentArray), or the return after it.
WalkItem ==
    /\ pc = "walkLoop"
    /\ LET top == Last(stack)
           below == SubSeq(stack, 1, Len(stack) - 1)
           item == Head(top.items).item
       IN  IF top.items = <<>> \/ LoopLimit(fileCount)
           THEN /\ Return(top.files, below)
                /\ UNCHANGED <<fileCount, reqs, served>>
           ELSE IF item.type = "file"
           THEN /\ stack' = [stack EXCEPT ![Len(stack)] =
                                [@ EXCEPT !.files = RPush(@, item),
                                          !.items = RRest(@)]]
                /\ fileCount' = fileCount + 1
                /\ UNCHANGED <<net, reqs, served, pc, files, fi, totalTokens, fileStats>>
           ELSE IF item.type = "dir"
           THEN /\ Call(RAt(repos, ri), item.path, top.depth + 1, fileCount,
                        stack)
                /\ UNCHANGED fileCount
           ELSE /\ stack' = [stack EXCEPT ![Len(stack)].items = RRest(@)]
                /\ UNCHANGED <<fileCount, net, reqs, served, pc, files, fi, totalTokens,
                               fileStats>>
    /\ lastRead' = NoResponse
    /\ UNCHANGED <<rerun, reply, username, minTokens, tokenizer, page, repos, ri, results,
                   timers, aborted, hung, left, received, listStatus, outcomes>>

(***************************************************************************)
(* analyzeRepository and downloadFileContent                               *)
(***************************************************************************)
\* analyzeRepository is left, by return or by exception: its locals are gone.
Leave ==
    /\ files' = <<>>
    /\ fi' = 0
    /\ totalTokens' = 0
    /\ fileStats' = NoStats

\* One iteration of for (const fileInfo of files) up to the fetch of its
\* download, or the return of analyzeRepository into analyzeUserProfile's
\* inner try (its result recorded) or inner catch (filePath.split throws on
\* an entry without a path).
FileStep ==
    /\ pc = "fileLoop"
    /\ IF fi > RLen(files) \/ ProcessedCapReached(fileStats.processed_files)
       THEN /\ results' = Record(results, RAt(repos, ri), totalTokens, fileStats,
                                 minTokens)
            /\ outcomes' = Append(outcomes, "ok")
            /\ ri' = ri + 1
            /\ pc' = "repoLoop"
            /\ Leave
            /\ UNCHANGED <<net, reqs, served, timers, aborted>>
       ELSE IF ~RAt(files, fi).hasPath
       THEN /\ results' = OnRepoError(results)
            /\ outcomes' = Append(outcomes, "threw")
            /\ ri' = ri + 1
            /\ pc' = "repoLoop"
            /\ Leave
            /\ UNCHANGED <<net, reqs, served, timers, aborted>>
       ELSE IF \/ ~IsCodeFile(RAt(files, fi).path)
               \/ RAt(files, fi).size > MAX_SIZE
               \/ ~RAt(files, fi).url
       THEN /\ fi' = fi + 1
            /\ UNCHANGED <<results, outcomes, ri, pc, net, reqs, served, timers, aborted,
                           files, totalTokens, fileStats>>
       ELSE /\ timers' = [timers EXCEPT !.current = TRUE]
            /\ aborted' = FALSE
            /\ net' = [kind |-> "download", page |-> 0,
                        repo |-> RAt(repos, ri).name, path |-> RAt(files, fi).path]
            /\ reqs' = reqs \cup {"download"}
            /\ served' = [served EXCEPT !.download = ri]
            /\ pc' = "dlWait"
            /\ UNCHANGED <<results, outcomes, ri, fi, files, totalTokens,
                           fileStats>>
    /\ lastRead' = NoResponse
    /\ UNCHANGED <<rerun, reply, username, minTokens, tokenizer, page, repos, stack, fileCount,
                   hung, left, received, listStatus>>

\* Faulty variant: the text is read whatever the status.
ContentM(r) == IF r.kind = "reject" THEN EmptyText ELSE Truncate(r.text)

\* downloadFileContent: what it returns for a response
Content(r) ==
    IF r.kind = "reject" \/ ~ok(r.status) THEN EmptyText ELSE Truncate(r.text)

\* downloadFileContent: the timers left once it has returned.  clearTimeout
\* runs after the fetch resolved; a rejected fetch skips it and leaves the
\* timer pending.
TimersAfter(t, r) ==
    IF r.kind = "reject"
    THEN [current |-> FALSE, stale |-> t.stale + (IF t.current THEN 1 ELSE 0)]
    ELSE [t EXCEPT !.current = FALSE]

\* The response to a download arrives: the rest of downloadFileContent and of
\* the loop body of analyzeRepository.
DownloadResponse ==
    /\ pc = "dlWait"
    /\ ~hung
    /\ \E r \in Offered(DownloadResponses(left)) :
          LET content == Content(r)
              fileTokens == countTokensInText(tokenizer, content)
              ext == fileExt(RAt(files, fi).path)[1]
          IN  /\ rerun' = Noted(r)
              /\ left' = r.left
              /\ lastRead' = Read(r, content.len # 0
                                        /\ (tokenizer = "null" \/ content.poison),
                                   content.len)
              /\ timers' = TimersAfter(timers, r)
              /\ IF content.len # 0
                 THEN /\ totalTokens' = totalTokens + fileTokens
                      /\ fileStats' =
                            [fileStats EXCEPT
                                !.processed_files = @ + 1,
                                !.extensions = AddExtension(@, ext, fileTokens)]
                 ELSE UNCHANGED <<totalTokens, fileStats>>
    /\ aborted' = FALSE
    /\ net' = NoRequest
    /\ fi' = fi + 1
    /\ pc' = "fileLoop"
    /\ UNCHANGED <<reply, username, minTokens, tokenizer, page, repos, ri, results,
                   stack, fileCount, files, hung, received, listStatus, outcomes,
                   reqs, served>>

\* The upstream stops answering the outstanding download.
DownloadHang ==
    /\ pc = "dlWait"
    /\ ~hung
    /\ rerun.mode # "replay"
    /\ left.odd > 0
    /\ hung' = TRUE
    /\ left' = Spend(left, 0, 1, 0)
    /\ lastRead' = NoResponse
    /\ UNCHANGED <<rerun, reply, pc, username, minTokens, tokenizer, net, page, repos, ri,
                   results, stack, fileCount, files, fi, totalTokens, fileStats,
                   timers, aborted, received, listStatus, outcomes, reqs, served>>

\* A 10 second timer fires: () => controller.abort().  No fetch was given the
\* controller's signal, so only the controller changes.
TimerFire ==
    /\ \E which \in {"current", "stale"} :
          IF which = "current"
          THEN /\ timers.current
               /\ timers' = [timers EXCEPT !.current = FALSE]
               /\ aborted' = TRUE
          ELSE /\ timers.stale > 0
               /\ timers' = [timers EXCEPT !.stale = @ - 1]
               /\ UNCHANGED aborted
    /\ lastRead' = NoResponse
    /\ UNCHANGED <<rerun, reply, pc, username, minTokens, tokenizer, net, page, repos, ri,
                   results, stack, fileCount, files, fi, totalTokens, fileStats,
                   hung, left, received, listStatus, outcomes, reqs, served>>

\* POST after analyzeUserProfile has returned: the response.
Respond ==
    /\ pc = "done"
    /\ reply = NoReply
    /\ reply' = ReplyFor(results)
    /\ lastRead' = NoResponse
    /\ UNCHANGED <<rerun, pc, username, minTokens, tokenizer, net, page, repos, ri,
                   results, stack, fileCount, files, fi, totalTokens, fileStats,
                   timers, aborted, hung, left, received, listStatus, outcomes,
                   reqs, served>>

Next ==
    \/ Start
    \/ ListResponse
    \/ RepoLoop
    \/ ContentsResponse
    \/ WalkItem
    \/ FileStep
    \/ DownloadResponse
    \/ DownloadHang
    \/ TimerFire
    \/ Respond

Spec == Init /\ [][Next]_vars

\* analyzeUserProfile is called once more, with the same arguments on the
\* same analyzer, after its first call has returned: its locals are new, the
\* analyzer's fields and the timers still pending are what they were.
Again ==
    /\ pc = "done"
    /\ rerun.mode = "record"
    /\ rerun' = [rerun EXCEPT !.mode = "replay", !.first = results]
    /\ left' = rerun.budget
    /\ pc' = "listWait"
    /\ page' = 1
    /\ repos' = <<>>
    /\ ri' = 0
    /\ results' = NewResults(username, minTokens)
    /\ net' = [kind |-> "list", page |-> 1, repo |-> "", path |-> <<>>]
    /\ reqs' = {"list"}
    /\ served' = NoneServed
    /\ received' = <<>>
    /\ listStatus' = 0
    /\ outcomes' = <<>>
    /\ lastRead' = NoResponse
    /\ reply' = NoReply
    /\ UNCHANGED <<username, minTokens, tokenizer, stack, fileCount, files, fi,
                   totalTokens, fileStats, timers, aborted, hung>>

NextTwice == Next \/ Again

SpecTwice == InitTwice /\ [][NextTwice]_vars

SpecDeep == InitDeep /\ [][Next]_vars

SpecLarge == InitLarge /\ [][Next]_vars

\* The event loop runs every continuation and every timer that is ready, and
\* the upstream answers every request it has not stopped answering.
FairSpec == Init /\ [][Next]_vars /\ WF_vars(Next)

(***************************************************************************)
(* Properties                                                              *)
(***************************************************************************)
Returned == pc = "done"

StatNames == DOMAIN results.all_repo_stats

StatValues == { results.all_repo_stats[n] : n \in StatNames }

Qualifying == results.repos_meeting_criteria

InWalk == pc \in {"walkWait", "walkLoop"}

InFiles == pc \in {"fileLoop", "dlWait"}

\* The listing entry under analysis.
CurrentRepo == RAt(repos, ri)

\* C1: in every returned report repos_meeting_criteria is exactly the
\* collection of the values of all_repo_stats at or above the threshold: each
\* member is a value stored in all_repo_stats, and each stored value at or
\* above the threshold is a member exactly once.
C1_QualifyingIsFilterOfStats ==
    Returned =>
        /\ \A i \in DOMAIN Qualifying : Qualifying[i] \in StatValues
        /\ \A v \in StatValues :
              v.total_tokens >= results.min_tokens_threshold =>
                  Cardinality({ i \in DOMAIN Qualifying : Qualifying[i] = v }) = 1

\* C2: the list getUserRepos builds holds no fork, so no contents or download
\* request is issued for a fork, and every repository of all_repo_stats and
\* of repos_meeting_criteria was listed as a repository that is no fork.
C2_NoForkAnalyzed ==
    LET own == { r.name : r \in { x \in RItems(received) : ~x.fork } }
    IN  /\ \A r \in RItems(repos) : ~r.fork
        /\ net.kind \in {"contents", "download"} =>
              /\ ~CurrentRepo.fork
              /\ net.repo = CurrentRepo.name
        /\ StatNames \subseteq own
        /\ \A i \in DOMAIN Qualifying : Qualifying[i].name \in own

\* A report with a repository recorded, after forks were listed.
C2_Witness ==
    /\ Returned
    /\ \E r \in RItems(received) : r.fork /\ r # PadEntry
    /\ StatNames # {}

\* C3: at every point of analyzeRepository and in every recorded result,
\* processed_files <= 200 and processed_files <= total_files.
C3_ProcessedBounded ==
    /\ fileStats.processed_files <= MAX_PROCESSED
    /\ fileStats.processed_files <= fileStats.total_files
    /\ \A v \in StatValues :
          /\ v.file_stats.processed_files <= MAX_PROCESSED
          /\ v.file_stats.processed_files <= v.file_stats.total_files

\* The cap stops a repository that has files left.
C3_Witness ==
    /\ pc = "fileLoop"
    /\ fileStats.processed_files = MAX_PROCESSED
    /\ fi <= RLen(files)

Paths(a) == { f.path : f \in { x \in RItems(a) : x.hasPath } }

\* C4, as stated: no file entry a walk returns has a path with a segment,
\* its own name included, that is an excluded name.
C4_Original ==
    \A p \in Paths(files) : \A i \in DOMAIN p : p[i] \notin skipDirs

\* C4, amended: no file entry a walk returns has a path with a directory
\* segment, any segment in front of the file's own name, that is an excluded
\* name.
C4_NoExcludedDirectory ==
    /\ \A p \in Paths(files) : \A i \in 1..(Len(p) - 1) : p[i] \notin skipDirs
    /\ \A k \in DOMAIN stack :
          /\ \A i \in DOMAIN stack[k].path : stack[k].path[i] \notin skipDirs
          /\ \A p \in Paths(stack[k].files) :
                \A i \in 1..(Len(p) - 1) : p[i] \notin skipDirs

\* The walk of the first repository skipped an excluded directory and
\* returned a file of another directory.
C4_Witness ==
    /\ InFiles
    /\ ri = 1
    /\ "skipped" \in reqs
    /\ \E p \in Paths(files) : Len(p) >= 2

OkCount == Cardinality({ i \in DOMAIN outcomes : outcomes[i] = "ok" })

OkNames == { RAt(repos, i).name : i \in { j \in DOMAIN outcomes : outcomes[j] = "ok" } }

\* C5: a listing entry whose analysis throws adds nothing to the report (the
\* repositories recorded and counted are those of the entries analysed without
\* exception), the entries after it are still analysed, and the report
\* carries no error.
C5_FailureSkipsRepo ==
    ri >= 1 =>
        /\ results.total_repos_analyzed = OkCount
        /\ StatNames = OkNames
        /\ \A i \in DOMAIN Qualifying : Qualifying[i].name \in OkNames
        /\ results.error = NoError
        /\ Len(outcomes) = IF Returned THEN RLen(repos) ELSE ri - 1

\* A report after an analysis that threw and a later one that did not.
C5_Witness ==
    /\ Returned
    /\ \E i, j \in DOMAIN outcomes :
          i < j /\ outcomes[i] = "threw" /\ outcomes[j] = "ok"

\* C6: once a listing request was answered with a status that is no success,
\* analyzeUserProfile has returned a report with zero counts, empty
\* collections and the error of that status: not found for 404, rate limit
\* for 403, the status itself for any other.
C6_ListingFailureReport ==
    (listStatus > 0 /\ ~ok(listStatus)) =>
        /\ Returned
        /\ results.total_repos_analyzed = 0
        /\ results.repos_meeting_criteria = <<>>
        /\ DOMAIN results.all_repo_stats = {}
        /\ results.error.msg # ""
        /\ listStatus = 404 =>
              results.error = [msg |-> "User '%s' not found", arg |-> username]
        /\ listStatus = 403 =>
              results.error.msg =
                  "Rate limit exceeded. Please provide a GitHub token or wait."
        /\ listStatus \notin {403, 404} =>
              results.error = [msg |-> "Error fetching repos: %s",
                               arg |-> ToString(listStatus)]

\* A later page fails after non-fork repositories were listed.
C6_Witness ==
    /\ listStatus = 500
    /\ page > 1
    /\ RLen(repos) > 0

\* C7, as stated: a download that is outstanding is eventually over, hung
\* upstream or not.
C7_Original == (pc = "dlWait") ~> (pc # "dlWait")

Held == SumSeq([k \in DOMAIN stack |-> RLen(stack[k].files)])

\* C8: the counter counts the files of the whole walk; it never passes
\* MAX_FILES + 1, no directory listing is requested once it passed
\* MAX_FILES, and a walk returns at most MAX_FILES + 1 entries.
C8_WalkCapped ==
    /\ InWalk => Held = fileCount
    /\ InWalk => fileCount <= MAX_FILES + 1
    /\ pc = "walkWait" => fileCount <= MAX_FILES
    /\ InFiles => RLen(files) <= MAX_FILES + 1

\* The cap is met in a subdirectory while its parent has entries pending.
C8_Witness ==
    /\ pc = "walkLoop"
    /\ fileCount = MAX_FILES + 1
    /\ Len(stack) >= 2
    /\ RLen(stack[1].items) >= 2

\* C9: a directory listing is requested only for directories at most
\* MAX_DEPTH levels below the root, and every file entry of the walk has at
\* most MAX_DEPTH directory segments in front of its name.
C9_DepthBounded ==
    /\ \A k \in DOMAIN stack :
          /\ stack[k].depth = Len(stack[k].path)
          /\ stack[k].depth <= MAX_DEPTH
          /\ \A p \in Paths(stack[k].files) : Len(p) - 1 <= MAX_DEPTH
    /\ net.kind = "contents" => Len(net.path) <= MAX_DEPTH
    /\ \A p \in Paths(files) : Len(p) - 1 <= MAX_DEPTH

\* Below a chain of MAX_DEPTH directories, a listing of a file and one more
\* directory has been gone through: the file is kept, the directory, at
\* level MAX_DEPTH + 1, was not listed.
C9_Witness ==
    /\ pc = "walkLoop"
    /\ Len(stack) = MAX_DEPTH + 1
    /\ Last(stack).items = <<>>
    /\ RLen(Last(stack).files) = 1
    /\ left.items = 0
    /\ \A k \in 1..MAX_DEPTH : RLen(stack[k].items) = 1 /\ stack[k].files = <<>>

\* C10: when the listing succeeds with no repository that is no fork, the
\* report has zero counts, empty collections and the error that no
\* repositories were found, and no contents or download request was issued.
C10_NoRepositories ==
    (Returned /\ ok(listStatus) /\ RLen(repos) = 0) =>
        /\ results.total_repos_analyzed = 0
        /\ results.repos_meeting_criteria = <<>>
        /\ DOMAIN results.all_repo_stats = {}
        /\ results.error.msg = "No repositories found or user does not exist"
        /\ reqs = {"list"}

\* The user has forks only.
C10_Witness ==
    /\ Returned
    /\ ok(listStatus)
    /\ RLen(repos) = 0
    /\ \E r \in RItems(received) : r # PadEntry

\* C11: getUserRepos asks for page 1, then for one page more after every
\* page of exactly perPage entries, and for nothing after a page that is
\* empty or shorter; what it returns is the entries of the pages received
\* that are no fork, in the order received.
C11_Pagination ==
    /\ page >= 1
    /\ pc = "listWait" =>
          /\ net = [kind |-> "list", page |-> page, repo |-> "", path |-> <<>>]
          /\ RLen(received) = (page - 1) * perPage
          /\ repos = NonFork(received)
    /\ (pc \notin {"start", "listWait"} /\ ok(listStatus)) =>
          /\ RLen(received) - (page - 1) * perPage \in 0..(perPage - 1)
          /\ repos = NonFork(received)

\* The listing ended on its second page; two entries were kept and the
\* forks dropped.
C11_Witness ==
    /\ pc = "repoLoop"
    /\ page = 2
    /\ RLen(received) > perPage
    /\ RLen(repos) >= 2
    /\ RLen(repos) < RLen(received)

\* The steps C12 is about: one that reads a failed directory listing and one
\* that reads a failed download or counts with a failing tokenizer.
C12_Step ==
    LET failed == lastRead'.status \in {"failed", "rejected"}
        n == Len(stack)
    IN  /\ (pc = "walkWait" /\ failed) =>
              /\ results' = results /\ outcomes' = outcomes /\ ri' = ri
              /\ IF n = 1
                 THEN /\ pc' = "fileLoop"
                      /\ files' = <<>>
                 ELSE /\ pc' = "walkLoop"
                      /\ Len(stack') = n - 1
                      /\ stack'[n - 1].files = stack[n - 1].files
                      /\ stack'[n - 1].items = RRest(stack[n - 1].items)
                      /\ \A k \in 1..(n - 2) : stack'[k] = stack[k]
        /\ (pc = "dlWait" /\ (failed \/ lastRead'.threw)) =>
              /\ totalTokens' = totalTokens
              /\ pc' = "fileLoop" /\ fi' = fi + 1 /\ files' = files
              /\ results' = results /\ outcomes' = outcomes /\ ri' = ri
        /\ Len(outcomes') > Len(outcomes) =>
              /\ pc = "fileLoop"
              /\ Last(outcomes') = "threw" =>
                    fi <= RLen(files) /\ ~RAt(files, fi).hasPath
              /\ Last(outcomes') = "ok" =>
                    /\ CurrentRepo.name \in DOMAIN results'.all_repo_stats
                    /\ results'.error = NoError

\* C12: a failed directory listing gives nothing for its subtree and the
\* walk goes on with what it holds and with the next sibling; a failed
\* download or a failing tokenizer adds no token and the loop goes on with
\* the next file; none of them ends analyzeRepository, which ends by
\* exception on an entry without a path only, and otherwise has its
\* repository recorded in a report without error.
C12_FailureConfined == [][C12_Step]_vars

\* The listing of a subdirectory failed; the file listed before it is kept.
C12_Witness ==
    /\ pc = "walkLoop"
    /\ lastRead.status = "failed"
    /\ Len(stack) = 1
    /\ RLen(stack[1].files) >= 1

\* C13, as stated: every failure response of POST carries an error next to
\* zero counts and empty collections, like a report, and its status for a
\* failure of the upstream is another than for a missing username.
C13_Original ==
    reply.status >= 400 =>
        /\ {"error", "total_repos_analyzed", "repos_meeting_criteria",
            "all_repo_stats"} \subseteq DOMAIN reply.body
        /\ reply.body.error # NoError
        /\ (listStatus > 0 /\ ~ok(listStatus)) =>
              reply.status # MissingUsername.status

\* C14: a second run with the same arguments, against an upstream that
\* answers every request as it did in the first run, reports the same
\* repositories with the same total_tokens and meets_criteria.
C14_SecondRunAgrees ==
    (rerun.mode = "replay" /\ Returned) =>
        /\ StatNames = DOMAIN rerun.first.all_repo_stats
        /\ \A n \in StatNames :
              /\ results.all_repo_stats[n].total_tokens =
                    rerun.first.all_repo_stats[n].total_tokens
              /\ results.all_repo_stats[n].meets_criteria =
                    rerun.first.all_repo_stats[n].meets_criteria
        /\ rerun.tape = <<>>

\* A second report with a repository that has tokens, made while a timer of
\* the first run was still pending.
C14_Witness ==
    /\ rerun.mode = "replay"
    /\ Returned
    /\ \E n \in StatNames : results.all_repo_stats[n].total_tokens > 0
    /\ timers.stale > 0

\* The entry the loop of analyzeRepository is at.
Entry15 == RAt(files, fi)

\* The loop is at an entry with an allow-listed extension and a size of at
\* most 10 MiB, with fewer than MAX_PROCESSED files processed, and the step
\* is the loop's (not a timer's).
Eligible ==
    /\ pc = "fileLoop"
    /\ (pc' # pc \/ fi' # fi)
    /\ fi <= RLen(files)
    /\ fileStats.processed_files < MAX_PROCESSED
    /\ Entry15.hasPath
    /\ IsCodeFile(Entry15.path)
    /\ Entry15.size <= MAX_SIZE

\* The value of the per-extension mapping at e, 0 without it.
Under(extensions, e) == IF e \in DOMAIN extensions THEN extensions[e] ELSE 0

\* The step that ends a download counts the file: its tokens are added to
\* the total and under its extension, and processed_files grows by one.
Counted ==
    LET e == fileExt(Entry15.path)[1]
        gain == totalTokens' - totalTokens
    IN  /\ gain = IF lastRead'.threw THEN 0 ELSE lastRead'.len
        /\ fileStats'.processed_files = fileStats.processed_files + 1
        /\ DOMAIN fileStats'.extensions = DOMAIN fileStats.extensions \cup {e}
        /\ \A x \in DOMAIN fileStats'.extensions :
              fileStats'.extensions[x] =
                  Under(fileStats.extensions, x) + (IF x = e THEN gain ELSE 0)

\* C15, as stated: every such entry is fetched, and its download ends with
\* the file counted.
C15_Original ==
    [][/\ Eligible => (pc' = "dlWait" /\ net'.path = Entry15.path)
       /\ (pc = "dlWait" /\ pc' = "fileLoop") => Counted]_vars

\* C15, amended: every such entry is fetched if it has a download URL and
\* left alone if it has none; its download ends with the file counted if the
\* text returned is not empty, and with nothing changed if it is (an empty
\* file, a failure status, a rejected fetch).
C15_CountedWhenContent ==
    [][/\ Eligible =>
             IF Entry15.url
             THEN /\ pc' = "dlWait"
                  /\ net' = [kind |-> "download", page |-> 0,
                              repo |-> CurrentRepo.name, path |-> Entry15.path]
             ELSE /\ pc' = "fileLoop" /\ fi' = fi + 1
                  /\ totalTokens' = totalTokens /\ fileStats' = fileStats
       /\ (pc = "dlWait" /\ pc' = "fileLoop") =>
             /\ fi' = fi + 1
             /\ IF lastRead'.len > 0
                THEN lastRead'.status = "ok" /\ Counted
                ELSE totalTokens' = totalTokens /\ fileStats' = fileStats]_vars

\* Two files of one extension were counted, 1 token each.
C15_Witness ==
    /\ pc = "fileLoop"
    /\ fileStats.processed_files = 2
    /\ totalTokens = 2
    /\ Under(fileStats.extensions, "ts") = 2

\* The path contains a '.'.
HasDot(path) == \E i \in DOMAIN path : Len(path[i]) >= 2

\* C16, as stated: a download is requested only for an entry whose path
\* contains a '.' and whose text after the final '.', lower-cased, is
\* allow-listed; the loop passes over every other entry with the total, the
\* counts and the per-extension mapping unchanged.
C16_Original ==
    [][/\ (pc = "fileLoop" /\ pc' = "dlWait") =>
             (HasDot(Entry15.path) /\ IsCodeFile(Entry15.path))
       /\ (/\ pc = "fileLoop" /\ (pc' # pc \/ fi' # fi)
           /\ fi <= RLen(files)
           /\ fileStats.processed_files < MAX_PROCESSED
           /\ Entry15.hasPath
           /\ ~(HasDot(Entry15.path) /\ IsCodeFile(Entry15.path))) =>
             /\ pc' = "fileLoop" /\ fi' = fi + 1
             /\ totalTokens' = totalTokens /\ fileStats' = fileStats]_vars

(***************************************************************************)
(* C17: one request at a time, in order                                    *)
(***************************************************************************)
\* The step issues a request of this kind.
Issues(kind) == net' # net /\ net'.kind = kind

\* What is outstanding is what the code is waiting for, and nothing is
\* outstanding while it runs.
OneOutstanding ==
    /\ net.kind = "list" <=> pc = "listWait"
    /\ net.kind = "contents" <=> pc = "walkWait"
    /\ net.kind = "download" <=> pc = "dlWait"
    /\ net.kind \in {"none", "list", "contents", "download"}

C17_Step ==
    /\ (net' # net /\ net.kind # "none") => lastRead' # NoResponse
    /\ Issues("list") => /\ served = NoneServed
                         /\ reqs \subseteq {"list"}
    /\ Issues("contents") =>
          /\ net.kind = "none"
          /\ ri \in 1..RLen(repos)
          /\ net'.repo = RAt(repos, ri).name
          /\ served.contents <= ri
          /\ served.download < ri
          /\ served'.contents = ri
    /\ Issues("download") =>
          /\ net.kind = "none"
          /\ stack = <<>>
          /\ ri \in 1..RLen(repos)
          /\ net'.repo = RAt(repos, ri).name
          /\ served.contents = ri
          /\ served.download <= ri
          /\ served'.download = ri
    /\ ri' >= ri
    /\ ri' # ri => net' = NoRequest

\* C17: within one analysis at most one request is outstanding; a request is
\* issued only once the outstanding one was answered; no listing page is
\* requested after a contents request or a download; a contents request is for
\* the repository at position ri, for which no download was issued yet; a
\* download is issued with no activation of the walk left, for the repository
\* at position ri, and no request was issued for a later position; ri never
\* goes back and moves only with nothing outstanding.
C17_OneAtATimeInOrder == []OneOutstanding /\ [][C17_Step]_vars

\* The second repository's file is being downloaded after a download for the
\* first, and its walk went into a directory.
C17_Witness ==
    /\ net.kind = "download"
    /\ ri = 2
    /\ served = [contents |-> 2, download |-> 2]
    /\ outcomes = <<"ok">>
    /\ \E n \in DOMAIN results.all_repo_stats :
          results.all_repo_stats[n].file_stats.processed_files >= 1
    /\ Len(net.path) >= 2


(***************************************************************************)
(* C18: the total and the per-extension mapping                            *)
(***************************************************************************)
RECURSIVE SumOver(_, _)
\* The sum of the values of a mapping over the keys in S.
SumOver(map, S) ==
    IF S = {} THEN 0
    ELSE LET k == CHOOSE x \in S : TRUE
         IN  map[k] + SumOver(map, S \ {k})

Accounted(tokens, stats) ==
    /\ tokens = SumOver(stats.extensions, DOMAIN stats.extensions)
    /\ DOMAIN stats.extensions \subseteq codeExtensions
    /\ Cardinality(DOMAIN stats.extensions) <= stats.processed_files

\* C18: after every step of analyzeRepository, and in every result recorded
\* from it, the total token count is the sum of the values of the
\* per-extension mapping, every key of the mapping is an allow-listed
\* extension, and there are at most processed_files keys.
C18_TotalIsSumOfExtensions ==
    /\ Accounted(totalTokens, fileStats)
    /\ \A n \in StatNames :
          Accounted(results.all_repo_stats[n].total_tokens,
                    results.all_repo_stats[n].file_stats)

\* Two files of different extensions were counted and the result recorded.
C18_Witness ==
    \E n \in StatNames :
       LET a == results.all_repo_stats[n]
       IN  /\ Cardinality(DOMAIN a.file_stats.extensions) = 2
           /\ a.file_stats.processed_files = 2
           /\ a.total_tokens = 2
           /\ \A e \in DOMAIN a.file_stats.extensions :
                 a.file_stats.extensions[e] = 1


(***************************************************************************)
(* C19: the count of analysed repositories                                 *)
(***************************************************************************)
\* C19: in every report returned, for any upstream listing, one that
\* returns a name more than once included, total_repos_analyzed is the number
\* of entries of all_repo_stats, and repos_meeting_criteria is no longer than
\* total_repos_analyzed.
C19_Original ==
    Returned =>
       /\ results.total_repos_analyzed = Cardinality(StatNames)
       /\ Len(results.repos_meeting_criteria) <= results.total_repos_analyzed

====
